---- MODULE Spec2Model ----
(***************************************************************************)
(* Model of surface.py: detect (quadrilateral selection, corner            *)
(* classification, area-ratio acceptance), display, and the countdown      *)
(* acquisition loop get_surface.                                           *)
(*                                                                         *)
(* Conventions.  A point is <<x, y>>.  A contour found by findContours is  *)
(* [id, area, poly]: id is its position in findContours' output, area is   *)
(* cv2.contourArea of the raw contour (the sort key), poly is what         *)
(* approxPolyDP returns for it.  A frame is [rows, cols, lit, contours]:   *)
(* the shape of the captured image, whether the pixels under the target    *)
(* are non-zero, and the contours of its height-300 working copy.  Areas   *)
(* are kept doubled (area2) so that the shoelace formula stays integral.   *)
(* Wall-clock time is counted in tenths of a second: now is the clock      *)
(* modulo 10 s (all that the program reads of it), since_ref the time      *)
(* since the reading that curr_time holds.                                 *)
(*                                                                         *)
(* State.  image, det: the frame of the current tick and detect's locals   *)
(* at its exit.  pc, count, curr_time, valid_surface, key, windows,        *)
(* returned: get_surface's position, locals, the three display windows     *)
(* and its return value.  requested, log, shown, decrements, elapsed and   *)
(* allSlow record the history of the session: the count asked for, the     *)
(* detect results and the rectified frames shown tick by tick, the number  *)
(* of decrements, the time since the reference at the latest tick, and     *)
(* whether every tick so far took at least one second.                     *)
(***************************************************************************)
EXTENDS Integers, Sequences, FiniteSets, TLC

VARIABLES image, det, pc, requested, count, curr_time, since_ref, now,
          valid_surface, key, log, shown, windows, decrements, elapsed,
          allSlow, returned

vars == <<image, det, pc, requested, count, curr_time, since_ref, now,
          valid_surface, key, log, shown, windows, decrements, elapsed,
          allSlow, returned>>

loopVars == <<pc, requested, count, curr_time, since_ref, now, valid_surface,
              key, log, shown, windows, decrements, elapsed, allSlow,
              returned>>

---------------------------------------------------------------------------
(* Bounds of the model *)

MaxCoord == 2

MaxContours == 6

MaxCount == 2

MaxTicks == 3

---------------------------------------------------------------------------
(* Program constants *)

\* cutoff = 0.03, kept as the fraction cutoff_num / cutoff_den
cutoff_num == 3

cutoff_den == 100

image_resize_value == 300

top_contours == 5

quad_vertices == 4

surface_height == 800

\* width = int(1.8 * height)
surface_width == (18 * surface_height) \div 10

\* the slice [9:-5] of '%s.%f' keeps the last digit of the seconds and one
\* decimal: the clock reading modulo 10 s, i.e. modulo 100 tenths
stamp_period == 100

\* abs(test_time - curr_time) > 1, the 1 in tenths
one_second == 10

---------------------------------------------------------------------------
(* Helpers *)

Min(a, b) == IF a < b THEN a ELSE b

Max(a, b) == IF a > b THEN a ELSE b

Abs(a) == IF a < 0 THEN -a ELSE a

\* np.argmin over a sequence: the first index of the minimum
ArgMin(s) ==
    CHOOSE i \in 1..Len(s) :
        /\ \A j \in 1..Len(s) : s[i] <= s[j]
        /\ \A j \in 1..(i - 1) : s[j] > s[i]

\* np.argmax over a sequence: the first index of the maximum
ArgMax(s) ==
    CHOOSE i \in 1..Len(s) :
        /\ \A j \in 1..Len(s) : s[i] >= s[j]
        /\ \A j \in 1..(i - 1) : s[j] < s[i]

\* the index at which `for i in range(n): if np.array_equal(a[i], p): ... break`
\* stops, 0 when the loop runs out without a match
FirstEqual(a, p) ==
    IF \E i \in 1..Len(a) : a[i] = p
    THEN CHOOSE i \in 1..Len(a) :
             /\ a[i] = p
             /\ \A j \in 1..(i - 1) : a[j] # p
    ELSE 0

\* np.delete(a, i, 0)
Delete(a, i) ==
    [j \in 1..(Len(a) - 1) |-> IF j < i THEN a[j] ELSE a[j + 1]]

---------------------------------------------------------------------------
(* Images *)

\* np.array([]), the default of display's third parameter
NoImage == [rows |-> 0, cols |-> 0, any |-> FALSE, quad |-> <<>>]

\* imutils.resize(img, height=h): the height becomes h, the width
\* int(w * h / float(rows)); an image with no non-zero pixel stays so
Resize(img, h) ==
    [img EXCEPT !.rows = h, !.cols = (img.cols * h) \div img.rows]

---------------------------------------------------------------------------
(* detect: corner classification *)

\* np.sum(rect_points, axis=1)
PointSum(p) == p[1] + p[2]

\* the difference taken the other way round, x - y
PointDiffSwapped(p) == p[1] - p[2]

\* np.diff(reduced_points, axis=1): y - x
PointDiff(p) == p[2] - p[1]

\* Lines 92-116.  raised is TRUE when reduced_points is still None at the
\* np.diff call, which raises.
ClassifyCorners(rect_points) ==
    LET s == [i \in 1..Len(rect_points) |-> PointSum(rect_points[i])]
        top_left_point == rect_points[ArgMin(s)]
        bottom_right_point == rect_points[ArgMax(s)]
        i1 == FirstEqual(rect_points, top_left_point)
        temp == Delete(rect_points, i1)
        i2 == FirstEqual(temp, bottom_right_point)
    IN  IF i2 = 0
        THEN [raised |-> TRUE, corners |-> <<>>]
        ELSE LET reduced_points == Delete(temp, i2)
                 diff == [i \in 1..Len(reduced_points) |->
                              PointDiff(reduced_points[i])]
                 top_right_point == reduced_points[ArgMin(diff)]
                 bottom_left_point == reduced_points[ArgMax(diff)]
             IN  [raised |-> FALSE,
                  corners |-> <<top_left_point, top_right_point,
                                bottom_right_point, bottom_left_point>>]

\* np.multiply(point, ratio) with ratio = image.shape[0] / 300.0; the scaled
\* coordinates are kept as numerators over image_resize_value
ScalePoint(p, rows) == <<p[1] * rows, p[2] * rows>>

\* rect, line 125
ScaledRect(corners, rows) ==
    [i \in 1..Len(corners) |-> ScalePoint(corners[i], rows)]

\* dst, lines 147-155
DstRect ==
    << <<0, 0>>, <<surface_width - 1, 0>>,
       <<surface_width - 1, surface_height - 1>>, <<0, surface_height - 1>> >>

---------------------------------------------------------------------------
(* detect: contour ranking and selection *)

\* one step of the stable descending sort: c goes behind every contour whose
\* area is at least its own
InsertDesc(sorted, c) ==
    LET k == Cardinality({i \in 1..Len(sorted) : sorted[i].area >= c.area})
    IN  SubSeq(sorted, 1, k) \o <<c>> \o SubSeq(sorted, k + 1, Len(sorted))

RECURSIVE SortDesc(_)
\* sorted(contours, key=cv2.contourArea, reverse=True): stable
SortDesc(cs) ==
    IF cs = <<>> THEN <<>>
    ELSE InsertDesc(SortDesc(SubSeq(cs, 1, Len(cs) - 1)), cs[Len(cs)])

\* a slice that is one too long, [:6]
KeepSix(sorted) == SubSeq(sorted, 1, Min(top_contours + 1, Len(sorted)))

\* [:5]
KeepTop(sorted) == SubSeq(sorted, 1, Min(top_contours, Len(sorted)))

\* the for loop of lines 65-81: the 1-based position of the first contour
\* whose approximation has four points, 0 when there is none
FirstQuad(contours) ==
    IF \E i \in 1..Len(contours) : Len(contours[i].poly) = quad_vertices
    THEN CHOOSE i \in 1..Len(contours) :
             /\ Len(contours[i].poly) = quad_vertices
             /\ \A j \in 1..(i - 1) : Len(contours[j].poly) # quad_vertices
    ELSE 0

---------------------------------------------------------------------------
(* detect: area ratio *)

RECURSIVE ShoelaceSum(_, _)
ShoelaceSum(poly, i) ==
    IF i > Len(poly) THEN 0
    ELSE LET p == poly[i]
             q == poly[IF i = Len(poly) THEN 1 ELSE i + 1]
         IN  (p[1] * q[2] - q[1] * p[2]) + ShoelaceSum(poly, i + 1)

\* twice cv2.contourArea(surface_cnt)
Area2(poly) == Abs(ShoelaceSum(poly, 1))

\* original_image.shape[0] * original_image.shape[1]
OriginalImageArea(frame) == frame.rows * frame.cols

\* relative_size < cutoff, with relative_size = (area2 / 2) / image area
BelowCutoff(area2, image_area) ==
    area2 * cutoff_den < 2 * cutoff_num * image_area

---------------------------------------------------------------------------
(* detect *)

NoSurface == [kind |-> "None"]

\* the width of the height-300 working copy
WorkingCols(frame) == (frame.cols * image_resize_value) \div frame.rows

\* cv2.warpPerspective(original_image, persp_mtx, (width, height))
Transformed(frame, rect) ==
    [rows |-> surface_height, cols |-> surface_width, any |-> frame.lit,
     quad |-> rect]

\* lines 176-200
NewPlayingSurface(frame, surface_cnt, rect) ==
    [kind |-> "PlayingSurface",
     name |-> "primary",
     contour |-> surface_cnt,
     img_cnt |-> [rows |-> image_resize_value, cols |-> WorkingCols(frame),
                  any |-> TRUE, quad |-> surface_cnt],
     transform |-> Transformed(frame, rect),
     area2 |-> Area2(surface_cnt),
     area_relative |-> <<Area2(surface_cnt), 2 * OriginalImageArea(frame)>>,
     perspective_matrix |-> [src |-> rect, dst |-> DstRect],
     width |-> surface_width,
     height |-> surface_height,
     dealer_region |-> <<0, surface_width \div 2>>,
     player_region |-> <<(surface_width \div 2) + 1, surface_width>>]

NotRun ==
    [outcome |-> "not run", contours |-> <<>>, contour_idx |-> 0,
     surface_cnt |-> <<>>, rect |-> <<>>, playing_surface |-> NoSurface]

\* detect(image): its locals at exit and what it returns (outcome "None",
\* "PlayingSurface") or that it raised
Detect(frame) ==
    LET contours == KeepTop(SortDesc(frame.contours))
        found == FirstQuad(contours)
        contour_idx == IF found = 0 THEN Len(contours) ELSE found - 1
        base == [outcome |-> "None", contours |-> contours,
                 contour_idx |-> contour_idx, surface_cnt |-> <<>>,
                 rect |-> <<>>, playing_surface |-> NoSurface]
    IN  IF found = 0 THEN base
        ELSE LET surface_cnt == contours[found].poly
                 cls == ClassifyCorners(surface_cnt)
             IN  IF cls.raised
                 THEN [base EXCEPT !.outcome = "raised",
                                   !.surface_cnt = surface_cnt]
                 ELSE LET rect == ScaledRect(cls.corners, frame.rows)
                      IN  IF BelowCutoff(Area2(surface_cnt),
                                         OriginalImageArea(frame))
                          THEN [base EXCEPT !.surface_cnt = surface_cnt,
                                            !.rect = rect]
                          ELSE [base EXCEPT
                                   !.outcome = "PlayingSurface",
                                   !.surface_cnt = surface_cnt,
                                   !.rect = rect,
                                   !.playing_surface =
                                       NewPlayingSurface(frame, surface_cnt,
                                                         rect)]

---------------------------------------------------------------------------
(* Frames handed to detect *)

\* the points of the working copy with coordinates up to n
Points(n) == (0..n) \X (0..n)

\* the shapes (rows, cols) of the frames of QuadFrames
QuadShapes == {<<10, 10>>, <<5, 10>>}

\* a frame whose working copy holds one contour, approximated by four
\* arbitrary points of the grid
QuadFrame(shape, poly) ==
    [rows |-> shape[1], cols |-> shape[2], lit |-> TRUE,
     contours |-> <<[id |-> 1, area |-> Area2(poly), poly |-> poly]>>]

QuadFrames(n) ==
    {QuadFrame(shape, <<a, b, c, d>>) :
        shape \in QuadShapes, a \in Points(n), b \in Points(n),
        c \in Points(n), d \in Points(n)}

TrianglePoly == << <<0, 0>>, <<2, 0>>, <<0, 2>> >>

SquarePoly == << <<0, 0>>, <<0, 2>>, <<2, 2>>, <<2, 0>> >>

\* the areas of the raw contours of RankFrames
ContourAreas == {1, 2}

\* every sequence of up to max contours, each with one of these areas and a
\* three- or four-point approximation
ContourLists(max) ==
    UNION {[1..n -> ContourAreas \X {TrianglePoly, SquarePoly}] :
               n \in 0..max}

RankFrame(list) ==
    [rows |-> 10, cols |-> 10, lit |-> TRUE,
     contours |-> [i \in 1..Len(list) |->
                      [id |-> i, area |-> list[i][1], poly |-> list[i][2]]]]

RankFrames(max) == {RankFrame(list) : list \in ContourLists(max)}

\* A clean rectangular target with corners (x0, y0)-(x1, y1) in a frame of
\* the given shape: the resize to height 300 scales its corners by
\* 300 / rows, and the edge map of the working copy has the one contour that
\* follows the target's outline, which approxPolyDP reduces to its corners.
CleanFrame(shape, x0, y0, x1, y1) ==
    LET wx(x) == (x * image_resize_value) \div shape[1]
        poly == << <<wx(x0), wx(y0)>>, <<wx(x0), wx(y1)>>,
                   <<wx(x1), wx(y1)>>, <<wx(x1), wx(y0)>> >>
    IN  [rows |-> shape[1], cols |-> shape[2], lit |-> TRUE,
         target |-> <<x0, y0, x1, y1>>,
         contours |-> <<[id |-> 1, area |-> Area2(poly) \div 2,
                         poly |-> poly]>>]

CleanShapes == {<<150, 200>>, <<300, 400>>, <<480, 640>>, <<1080, 1920>>}

\* targets whose corners lie on the eighths of the frame
CleanSpans == {span \in (0..8) \X (0..8) : span[1] < span[2]}

CleanFrames(shapes) ==
    {CleanFrame(shape, (shape[2] * h[1]) \div 8, (shape[1] * v[1]) \div 8,
                       (shape[2] * h[2]) \div 8, (shape[1] * v[2]) \div 8) :
        shape \in shapes, h \in CleanSpans, v \in CleanSpans}

\* the pixel area of the target in its own frame
TargetArea(frame) ==
    (frame.target[3] - frame.target[1]) * (frame.target[4] - frame.target[2])

---------------------------------------------------------------------------
(* get_surface *)

\* frames the camera hands to the acquisition loop
FrameBlank == [rows |-> 300, cols |-> 400, lit |-> TRUE, contours |-> <<>>]

FrameS1 ==
    [rows |-> 300, cols |-> 400, lit |-> TRUE,
     contours |-> <<[id |-> 1, area |-> 60000,
                     poly |-> << <<50, 50>>, <<50, 250>>, <<350, 250>>,
                                 <<350, 50>> >>]>>]

FrameS2 ==
    [rows |-> 300, cols |-> 400, lit |-> TRUE,
     contours |-> <<[id |-> 1, area |-> 44000,
                     poly |-> << <<80, 40>>, <<60, 260>>, <<300, 240>>,
                                 <<280, 60>> >>]>>]

\* the target of FrameS1, every pixel of it black
FrameDark == [FrameS1 EXCEPT !.lit = FALSE]

\* a 4-point approximation whose points share one x + y
FrameDegenerate ==
    [rows |-> 300, cols |-> 400, lit |-> TRUE,
     contours |-> <<[id |-> 1, area |-> 0,
                     poly |-> << <<10, 40>>, <<20, 30>>, <<30, 20>>,
                                 <<40, 10>> >>]>>]

LoopFrames == {FrameBlank, FrameS1, FrameS2, FrameDark, FrameDegenerate}

ClockFrames == {FrameBlank, FrameS1}

\* what cv2.waitKey(delay=1) returns
Keys == {"none", "a", "A"}

\* key == ord('a') or key == ord('A')
IsCancel(k) == k = "a" \/ k = "A"

\* time between two readings of the clock by consecutive ticks, in tenths
TickDurations == {9, 10, 11, 100}

\* the same where it is the frames that vary
FewDurations == {9, 11}

\* time between the reading of test_time and the re-reading of line 279
RereadDelays == {0, 1}

\* the clock when get_surface is entered, in tenths
StartTimes == {0, 93}

\* a countdown that starts at the requested count itself
CountdownSame(n) == n

\* count += 1
InitialCount(n) == n + 1

\* float(datetime.now().strftime('%s.%f')[9:-5]), in tenths
Stamp(t) == t % stamp_period

\* the readings lo, lo + 1.0 whose difference as doubles exceeds 1
RoundsAboveOne == {12, 17, 34, 39, 73, 78}

\* abs(test_time - curr_time) > 1 on the doubles the two readings parse to
MoreThanOneSecond(test_time, reference) ==
    LET lo == Min(test_time, reference)
        hi == Max(test_time, reference)
    IN  IF hi - lo = one_second THEN lo \in RoundsAboveOne
        ELSE hi - lo > one_second

NoWindows == [Original |-> "closed", Contoured |-> "closed",
              Transformed |-> NoImage]

\* display(countdown, contoured, transformed): the three windows after it
Display(w, countdown, contoured, transformed) ==
    [Original |-> countdown, Contoured |-> contoured,
     Transformed |-> IF transformed.any THEN transformed ELSE w.Transformed]

\* what display hands to cv2.imshow("Transformed", ...), NoImage when it
\* does not call it
ShownTransformed(transformed) ==
    IF transformed.any THEN transformed ELSE NoImage

\* a held surface that follows every detect result, None included
KeepLatest(valid, playing_surface) == playing_surface

\* lines 283-297: valid_surface after the tick
HeldSurface(valid, playing_surface) ==
    IF playing_surface.kind = "PlayingSurface" THEN playing_surface
    ELSE valid

\* the third argument of the tick's display call
TransformedArg(valid, playing_surface) ==
    IF playing_surface.kind = "PlayingSurface"
    THEN Resize(playing_surface.transform, image_resize_value)
    ELSE IF valid.kind = "PlayingSurface"
         THEN Resize(valid.transform, image_resize_value)
         ELSE NoImage

NotReturned == [kind |-> "not returned"]

InitLoopVars ==
    /\ requested \in 0..MaxCount
    /\ count = InitialCount(requested)
    /\ now \in StartTimes
    /\ since_ref = 0
    /\ curr_time = Stamp(now)
    /\ valid_surface = NoSurface
    /\ pc = IF count # 0 THEN "loop" ELSE "exit"
    /\ key = "none"
    /\ log = <<>>
    /\ shown = <<>>
    /\ windows = NoWindows
    /\ decrements = 0
    /\ elapsed = 0
    /\ allSlow = TRUE
    /\ returned = NotReturned

InitLoop ==
    /\ image = FrameBlank
    /\ det = NotRun
    /\ InitLoopVars

\* one iteration of the while loop, lines 261-305, and the loop test that
\* follows it
Tick(frame, d, reread, k) ==
    /\ pc = "loop"
    /\ Len(log) < MaxTicks
    /\ image' = frame
    /\ det' = Detect(frame)
    /\ IF det'.outcome = "raised"
       THEN /\ pc' = "raised"
            /\ now' = Stamp(now + d)
            /\ since_ref' = since_ref + d
            /\ UNCHANGED <<requested, count, curr_time,
                           valid_surface, key, log, shown, windows,
                           decrements, elapsed, allSlow, returned>>
       ELSE LET playing_surface == det'.playing_surface
                test_now == now + d
                dec == count # 0
                       /\ MoreThanOneSecond(Stamp(test_now), curr_time)
                transformed == TransformedArg(valid_surface, playing_surface)
                contoured == IF playing_surface.kind = "PlayingSurface"
                             THEN "contour" ELSE "not found"
            IN  /\ count' = IF dec THEN count - 1 ELSE count
                /\ now' = IF dec THEN Stamp(test_now + reread)
                          ELSE Stamp(test_now)
                /\ since_ref' = IF dec THEN 0 ELSE since_ref + d
                /\ curr_time' = IF dec THEN Stamp(test_now + reread)
                                ELSE curr_time
                /\ decrements' = IF dec THEN decrements + 1 ELSE decrements
                /\ elapsed' = since_ref + d
                /\ allSlow' = (allSlow /\ d >= one_second)
                /\ valid_surface' = HeldSurface(valid_surface, playing_surface)
                /\ log' = Append(log, playing_surface)
                /\ shown' = Append(shown, ShownTransformed(transformed))
                /\ key' = k
                /\ windows' = IF IsCancel(k) THEN NoWindows
                              ELSE Display(windows, count', contoured,
                                           transformed)
                /\ pc' = IF IsCancel(k) \/ count' = 0 THEN "exit" ELSE "loop"
                /\ UNCHANGED <<requested, returned>>

\* lines 307-309
Return ==
    /\ pc = "exit"
    /\ windows' = NoWindows
    /\ returned' = valid_surface
    /\ pc' = "done"
    /\ UNCHANGED <<image, det, requested, count, curr_time, since_ref, now,
                   valid_surface, key, log, shown, decrements, elapsed,
                   allSlow>>

\* the acquisition loop over every frame, on a clock that starts at 0
NextLoop ==
    \/ \E frame \in LoopFrames, d \in FewDurations, k \in Keys :
          Tick(frame, d, 0, k)
    \/ Return

InitLoopAtZero == InitLoop /\ now = 0

SpecLoop == InitLoopAtZero /\ [][NextLoop]_vars

\* the acquisition loop over every clock, on two frames
NextClock ==
    \/ \E frame \in ClockFrames, d \in TickDurations,
          reread \in RereadDelays, k \in Keys : Tick(frame, d, reread, k)
    \/ Return

SpecClock == InitLoop /\ [][NextClock]_vars

---------------------------------------------------------------------------
(* detect called on its own *)

IdleLoopVars ==
    /\ pc = "idle"
    /\ requested = 0
    /\ count = 0
    /\ now = 0
    /\ since_ref = 0
    /\ curr_time = 0
    /\ valid_surface = NoSurface
    /\ key = "none"
    /\ log = <<>>
    /\ shown = <<>>
    /\ windows = NoWindows
    /\ decrements = 0
    /\ elapsed = 0
    /\ allSlow = TRUE
    /\ returned = NotReturned

DetectCall ==
    /\ pc = "idle"
    /\ det.outcome = "not run"
    /\ det' = Detect(image)
    /\ UNCHANGED image
    /\ UNCHANGED loopVars

NextDetect == DetectCall

InitQuad == image \in QuadFrames(MaxCoord) /\ det = NotRun /\ IdleLoopVars

SpecQuad == InitQuad /\ [][NextDetect]_vars

InitRank == image \in RankFrames(MaxContours) /\ det = NotRun /\ IdleLoopVars

SpecRank == InitRank /\ [][NextDetect]_vars

InitClean == image \in CleanFrames(CleanShapes) /\ det = NotRun /\ IdleLoopVars

SpecClean == InitClean /\ [][NextDetect]_vars

---------------------------------------------------------------------------
(* Properties *)

\* the most recent PlayingSurface of a sequence of detect results, NoSurface
\* when it has none
LastSuccess(results) ==
    LET hits == {i \in 1..Len(results) : results[i].kind = "PlayingSurface"}
    IN  IF hits = {} THEN NoSurface
        ELSE results[CHOOSE i \in hits : \A j \in hits : j <= i]

\* detect has been called on image and has finished
DetectRan == pc = "idle" /\ det.outcome # "not run"

\* the four points approxPolyDP gave for the only contour of a quad frame
QuadPoly == image.contours[1].poly

QuadPointSet == {QuadPoly[i] : i \in 1..4}

Collinear(a, b, c) ==
    (b[1] - a[1]) * (c[2] - a[2]) = (b[2] - a[2]) * (c[1] - a[1])

\* four distinct points, no three of them on a line
NonDegenerate ==
    /\ Cardinality(QuadPointSet) = 4
    /\ \A a \in QuadPointSet, b \in QuadPointSet, c \in QuadPointSet :
          Cardinality({a, b, c}) = 3 => ~Collinear(a, b, c)

\* one point alone has the least x + y, one alone the greatest, and the
\* two others differ in x - y
AxisUnambiguous ==
    /\ \E p \in QuadPointSet :
          \A q \in QuadPointSet \ {p} : p[1] + p[2] < q[1] + q[2]
    /\ \E p \in QuadPointSet :
          \A q \in QuadPointSet \ {p} : p[1] + p[2] > q[1] + q[2]
    /\ \A p \in QuadPointSet, q \in QuadPointSet :
          (/\ p # q
           /\ \E lo \in QuadPointSet \ {p, q} :
                 \A r \in QuadPointSet : lo[1] + lo[2] <= r[1] + r[2]
           /\ \E hi \in QuadPointSet \ {p, q} :
                 \A r \in QuadPointSet : hi[1] + hi[2] >= r[1] + r[2])
          => p[1] - p[2] # q[1] - q[2]

\* rect is (tl, tr, br, bl) scaled to the full frame, tl with the least
\* x + y, br with the greatest, tr and bl the two other points
OrderedBySum(tl, tr, br, bl) ==
    /\ {tl, tr, br, bl} = QuadPointSet
    /\ det.rect = ScaledRect(<<tl, tr, br, bl>>, image.rows)
    /\ \A p \in QuadPointSet : tl[1] + tl[2] <= p[1] + p[2]
    /\ \A p \in QuadPointSet : br[1] + br[2] >= p[1] + p[2]

\* C3, as amended: for four distinct, non-degenerate, axis-unambiguous
\* points detect orders the corners (TL, TR, BR, BL) with TL the point of
\* minimum x + y, BR the point of maximum x + y and, of the two others, TR
\* the one with the minimum y - x (the maximum x - y), BL the other.
C3_CornersOrderedByYMinusX ==
    (DetectRan /\ NonDegenerate /\ AxisUnambiguous) =>
        /\ det.outcome # "raised"
        /\ \E tl \in QuadPointSet, tr \in QuadPointSet, br \in QuadPointSet,
              bl \in QuadPointSet :
              /\ OrderedBySum(tl, tr, br, bl)
              /\ tr[2] - tr[1] < bl[2] - bl[1]

\* C3, as claimed: ... of the two others TR is the one with the minimum
\* x - y, BL the one with the maximum x - y.
C3_CornersOrderedByXMinusY ==
    (DetectRan /\ NonDegenerate /\ AxisUnambiguous) =>
        /\ det.outcome # "raised"
        /\ \E tl \in QuadPointSet, tr \in QuadPointSet, br \in QuadPointSet,
              bl \in QuadPointSet :
              /\ OrderedBySum(tl, tr, br, bl)
              /\ tr[1] - tr[2] < bl[1] - bl[2]

\* C3: detect has classified the corners of an axis-aligned square given
\* in the order (0,0), (0,2), (2,2), (2,0) and accepted it
C3_Witness ==
    /\ DetectRan /\ NonDegenerate /\ AxisUnambiguous
    /\ QuadPoly = << <<0, 0>>, <<0, 2>>, <<2, 2>>, <<2, 0>> >>
    /\ det.outcome = "PlayingSurface"

\* C10: for every four points given to the corner classification,
\* duplicate and collinear ones included, detect completes the assignment
\* of the corner roles and has four corner points; it does not raise.
C10_ClassificationNeverRaises ==
    DetectRan => (det.outcome # "raised" /\ Len(det.rect) = 4)

\* C5: once a 4-vertex candidate is selected, detect returns nothing
\* exactly when the contour's area in working-copy pixels over the frame's
\* rows x cols is below 0.03, and returns a PlayingSurface exactly when it
\* is at least 0.03.
C5_ReturnDecidedByRelativeArea ==
    (DetectRan /\ Len(det.surface_cnt) = 4) =>
        LET below == 100 * Area2(QuadPoly) < 2 * 3 * image.rows * image.cols
        IN  /\ (det.outcome = "None") <=> below
            /\ (det.outcome = "PlayingSurface") <=> ~below

\* C4: whenever a frame holds a clean rectangular target that covers more
\* than 3% of the frame's own area, at every resolution detect returns a
\* surface, and its rectified image is 800 rows by 1440 columns.
C4_CleanTargetAccepted ==
    (DetectRan /\ 100 * TargetArea(image) > 3 * image.rows * image.cols) =>
        /\ det.outcome = "PlayingSurface"
        /\ det.playing_surface.transform.rows = 800
        /\ det.playing_surface.transform.cols = 1440

\* the rank of contour i of the frame: one more than the number of
\* contours that are larger, or as large and found earlier
Rank(i) ==
    1 + Cardinality({k \in 1..Len(image.contours) :
            \/ image.contours[k].area > image.contours[i].area
            \/ /\ image.contours[k].area = image.contours[i].area
               /\ k < i})

RankedQuads ==
    {i \in 1..Len(image.contours) :
        Rank(i) <= 5 /\ Len(image.contours[i].poly) = 4}

\* C9: detect considers the 5 largest contours only, by descending area,
\* and selects the first of them whose approximation has exactly 4
\* vertices; when none of them has, also when there is no contour or a
\* 4-vertex contour only at rank 6 or lower, it returns nothing.
C9_FirstQuadOfFiveLargest ==
    DetectRan =>
        /\ Len(det.contours) <= 5
        /\ \A i \in 1..Len(image.contours) :
              Rank(i) <= 5 =>
                  (Rank(i) <= Len(det.contours) /\ det.contours[Rank(i)].id = i)
        /\ IF RankedQuads = {}
           THEN det.outcome = "None" /\ det.surface_cnt = <<>>
           ELSE LET j == CHOOSE i \in RankedQuads :
                             \A k \in RankedQuads : Rank(i) <= Rank(k)
                IN  /\ det.contour_idx + 1 = Rank(j)
                    /\ det.contours[det.contour_idx + 1].id = j
                    /\ det.surface_cnt = image.contours[j].poly

\* C9: six contours, the only 4-vertex one at rank 6, and detect has
\* returned nothing
C9_Witness ==
    /\ DetectRan
    /\ Len(image.contours) = 6
    /\ \E i \in 1..6 :
          /\ Rank(i) = 6
          /\ Len(image.contours[i].poly) = 4
          /\ \A k \in (1..6) \ {i} : Len(image.contours[k].poly) # 4
    /\ det.outcome = "None"

\* C1: on every tick the rectified frame given to the display is that of
\* the most recent successful detection up to that tick, and none is given
\* before the first success.
C1_ShownIsLatestRectified ==
    \A k \in 1..Len(shown) :
        LET s == LastSuccess(SubSeq(log, 1, k))
        IN  IF s.kind = "PlayingSurface"
            THEN shown[k].any /\ shown[k].quad = s.transform.quad
            ELSE shown[k] = NoImage

\* C7: the held surface is at every point the result of the most recent
\* successful detect call of the session, nothing before the first one,
\* and get_surface returns exactly it.
C7_HeldIsLastSuccess ==
    /\ pc \in {"loop", "exit", "done", "raised"} =>
          valid_surface = LastSuccess(log)
    /\ pc = "done" => returned = LastSuccess(log)

\* C7: a session of a success, a failure and another success, which has
\* returned the second surface
C7_Witness ==
    /\ pc = "done"
    /\ Len(log) = 3
    /\ log[1].kind = "PlayingSurface"
    /\ log[2].kind = "None"
    /\ log[3].kind = "PlayingSurface"
    /\ log[3] # log[1]
    /\ returned = log[3]

\* C8: get_surface leaves its loop only on a tick at which the countdown
\* has reached 0 or the key poll reports the cancel key, and after a tick
\* with a failed detection, a non-zero countdown and no cancel the loop
\* goes on.
C8_LoopLeftOnlyByCountOrCancel ==
    [][/\ (pc = "loop" /\ pc' # "loop") => (count' = 0 \/ IsCancel(key'))
       /\ (/\ pc = "loop"
           /\ det'.outcome # "PlayingSurface"
           /\ count' # 0
           /\ ~IsCancel(key')) => pc' = "loop"]_vars

\* C6: the countdown changes only by a decrement of 1, a tick at which
\* less than 1 second has passed since the reference timestamp was read
\* does not decrement it, and the reference is reset only by a tick that
\* decrements.
C6_DecrementOnlyAfterOneSecond ==
    [][/\ (count' = count \/ count' = count - 1)
       /\ (count' # count) => (elapsed' >= 10)
       /\ (since_ref' # since_ref /\ since_ref' = 0) => (count' = count - 1)
      ]_vars

====
